---- MODULE Spec2Model ----
(***************************************************************************)
(* A model of the tensor notebook (notebook/3.tensor.ipynb).  The notebook *)
(* is a sequence of cells; each cell is a handful of statements that call  *)
(* the tensor library, and the recorded cell outputs (values, shape,       *)
(* stride, data address of each printed tensor) are the behaviour of those *)
(* calls that the source shows.  A tensor is modelled as the notebook      *)
(* prints it: a data address into a buffer, a shape and a stride vector.   *)
(***************************************************************************)
EXTENDS Integers, Sequences, FiniteSets, TLC

VARIABLES
    heap,       \* the allocated buffers, in allocation order: heap[b][p + 1] is element p of buffer b
    th_a,       \* cell 6: the torch tensor bound to th_a (NoTensor when unbound)
    o3_a,       \* cell 6: the tensor bound to o3_a (NoTensor when unbound)
    linked,     \* cell 6: th_a and o3_a were produced from one another by a dlpack import / export
    ctor,       \* cell 6: number of constructor statements run (torch.ones, o3c.Tensor)
    pc6,        \* cell 6: position in the cell
    nwrites,    \* cell 6: number of item assignments run
    a,          \* cell 11: the tensor bound to a (NoTensor when unbound)
    view,       \* cell 11: a tensor reached from a by a chain of index expressions
    other,      \* cell 11: one of the four indexed tensors the cell prints
    chain,      \* cell 11: number of index expressions applied to reach view
    nassign,    \* cell 11: number of assignments run
    last,       \* cell 11: the last assignment: positions written, value, a's buffer before it
    args,       \* cells 8-13: the receiver and arguments of the library call the cell makes
    res         \* cells 8-13: what the call returned (NoResult before the call)

vars == <<heap, th_a, o3_a, linked, ctor, pc6, nwrites, a, view, other, chain, nassign, last,
          args, res>>
varsInterop == <<th_a, o3_a, linked, ctor, pc6, nwrites>>
varsSlicing == <<a, view, other, chain, nassign, last>>
varsCall == <<args, res>>

-----------------------------------------------------------------------------
(* Bounds of the model *)

\* item assignments explored after each import / export in cell 6
MaxWrites == 2

\* index expressions chained from a in cell 11 (a[1:][0] is a chain of two)
MaxChain == 2

\* assignments through an indexed tensor explored in cell 11
MaxAssign == 1

-----------------------------------------------------------------------------
(* Tensors as the notebook prints them *)

\* the unbound name
NoTensor == [buf |-> 0, off |-> 0, shape |-> <<>>, strides |-> <<>>]

\* no assignment has run yet
NoAssign == [done |-> FALSE, addrs |-> {}, val |-> 0, before |-> <<>>]

\* no call is being made, nothing was returned
NoArgs == [op |-> "none"]
NoResult == [done |-> FALSE]

\* canonical row-major strides of a shape (cell 3: shape {2,3,4} has strides {12,4,1})
RECURSIVE Numel(_)
Numel(shape) == IF shape = <<>> THEN 1 ELSE Head(shape) * Numel(Tail(shape))

RECURSIVE DefaultStrides(_)
DefaultStrides(shape) ==
    IF shape = <<>> THEN <<>>
    ELSE <<Numel(Tail(shape))>> \o DefaultStrides(Tail(shape))

\* a freshly constructed tensor on buffer b
NewTensor(b, shape) ==
    [buf |-> b, off |-> 0, shape |-> shape, strides |-> DefaultStrides(shape)]

\* the element positions (offsets into its buffer) a tensor addresses
RECURSIVE Addrs(_, _, _)
Addrs(shape, strides, off) ==
    IF shape = <<>> THEN {off}
    ELSE UNION { Addrs(Tail(shape), Tail(strides), off + i * Head(strides)) :
                 i \in 0 .. (Head(shape) - 1) }

TensorAddrs(t) == Addrs(t.shape, t.strides, t.off)

\* the elements of a one-dimensional tensor, as print() shows them
Read1(h, t) == [i \in 1 .. t.shape[1] |-> h[t.buf][t.off + (i - 1) * t.strides[1] + 1]]

-----------------------------------------------------------------------------
(* Indexing, slicing and item assignment                                   *)
(* (cell 11: a[1, 2], a[1:], a[:, 0:3:2, :], a[:-1, 0:3:2, 2];             *)
(*  cell 6: th_a[0] = 100, o3_a[1] = 200)                                  *)

\* One entry of an index expression: an integer, or a range start:stop:step whose
\* start and stop may be omitted (the empty sequence).
IntKey(i) == [kind |-> "int", i |-> i, start |-> <<>>, stop |-> <<>>, step |-> 1]
SliceKey(start, stop, step) ==
    [kind |-> "slice", i |-> 0, start |-> start, stop |-> stop, step |-> step]

Min(x, y) == IF x < y THEN x ELSE y
Max(x, y) == IF x > y THEN x ELSE y

RemoveAt(s, d) == SubSeq(s, 1, d - 1) \o SubSeq(s, d + 1, Len(s))

\* an integer index i is accepted on a dimension of size n iff -n <= i < n
IntInRange(i, n) == (-n <= i) /\ (i < n)

\* t[.., i, ..] on the bug that takes a negative i as it is
IndexExtractRaw(t, d, i) ==
    [buf |-> t.buf, off |-> t.off + i * t.strides[d],
     shape |-> RemoveAt(t.shape, d), strides |-> RemoveAt(t.strides, d)]

\* t[.., i, ..] on dimension d: the dimension is removed and the data address
\* advances by i strides; a negative i counts from the end
IndexExtract(t, d, i) ==
    LET n == t.shape[d]
        w == IF i < 0 THEN i + n ELSE i
    IN  [buf |-> t.buf, off |-> t.off + w * t.strides[d],
         shape |-> RemoveAt(t.shape, d), strides |-> RemoveAt(t.strides, d)]

\* a bound of a range on the bug that does not clamp it
SliceBoundUnclamped(b, n, default) ==
    IF b = <<>> THEN default
    ELSE IF b[1] < 0 THEN b[1] + n
    ELSE b[1]

\* a bound of a range on a dimension of size n: omitted bounds take the default,
\* negative ones count from the end, and the result is clamped to [0, n]
SliceBound(b, n, default) ==
    IF b = <<>> THEN default
    ELSE IF b[1] < 0 THEN Max(b[1] + n, 0)
    ELSE Min(b[1], n)

\* t[.., start:stop:step, ..] on dimension d: the dimension is kept with the number
\* of positions start, start+step, .. below stop; its stride is multiplied by step
Slice(t, d, k) ==
    LET n     == t.shape[d]
        start == SliceBound(k.start, n, 0)
        stop  == SliceBound(k.stop, n, n)
        len   == IF stop > start THEN (stop - start + k.step - 1) \div k.step ELSE 0
    IN  [buf |-> t.buf, off |-> t.off + start * t.strides[d],
         shape |-> [t.shape EXCEPT ![d] = len],
         strides |-> [t.strides EXCEPT ![d] = t.strides[d] * k.step]]

\* the index expression key is accepted by t seen from dimension d on: no more
\* entries than dimensions, and every integer within its dimension (else IndexError)
RECURSIVE KeyOKFrom(_, _, _)
KeyOKFrom(t, key, d) ==
    IF key = <<>> THEN TRUE
    ELSE IF d > Len(t.shape) THEN FALSE
    ELSE LET k == Head(key)
         IN  IF k.kind = "int"
             THEN /\ IntInRange(k.i, t.shape[d])
                  /\ KeyOKFrom(IndexExtract(t, d, k.i), Tail(key), d)
             ELSE KeyOKFrom(Slice(t, d, k), Tail(key), d + 1)

KeyOK(t, key) == KeyOKFrom(t, key, 1)

\* the shape, strides and data address of t[key]: the entries are applied left to
\* right, trailing dimensions without an entry are kept
RECURSIVE GetItemFrom(_, _, _)
GetItemFrom(t, key, d) ==
    IF key = <<>> THEN t
    ELSE LET k == Head(key)
         IN  IF k.kind = "int"
             THEN GetItemFrom(IndexExtract(t, d, k.i), Tail(key), d)
             ELSE GetItemFrom(Slice(t, d, k), Tail(key), d + 1)

\* t[key] on the copying bug: the selected elements are read from a copy of the buffer
GetItemCopy(h, t, key) ==
    [heap |-> Append(h, h[t.buf]),
     t    |-> [GetItemFrom(t, key, 1) EXCEPT !.buf = Len(h) + 1]]

\* t[key]: a tensor on t's own buffer; nothing is allocated.  Cell 11 prints each
\* indexed tensor at a data address inside a's buffer (0x562268568d60 + 8 * offset).
GetItem(h, t, key) == [heap |-> h, t |-> GetItemFrom(t, key, 1)]

\* the buffer after every position in ps is set to val
Fill(buffer, ps, val) ==
    [p \in 1 .. Len(buffer) |-> IF (p - 1) \in ps THEN val ELSE buffer[p]]

\* t[key] = val: val is written to every element of t[key]
SetItem(h, t, key, val) ==
    LET r == GetItem(h, t, key)
    IN  [r.heap EXCEPT ![r.t.buf] = Fill(r.heap[r.t.buf], TensorAddrs(r.t), val)]

-----------------------------------------------------------------------------
(* Cell 6: conversion from and to a torch tensor through dlpack *)

\* the length of the tensors of the cell: torch.ones((5,)), o3c.Tensor([1, 1, 1, 1, 1])
InteropLen == 5

\* the values the cell assigns: th_a[0] = 100, o3_a[1] = 200
WriteVals == {100, 200}

Ones == [i \in 1 .. InteropLen |-> 1]

\* to_dlpack: the capsule describes the tensor's own data address, shape and strides
ToDlpack(t) == t

\* from_dlpack on the copying bug: the capsule's elements land in a new buffer
FromDlpackCopy(h, capsule) ==
    [heap |-> Append(h, h[capsule.buf]),
     t    |-> [capsule EXCEPT !.buf = Len(h) + 1]]

\* from_dlpack: the tensor wraps the capsule's data address; nothing is allocated.
\* The cell prints o3_a at one address (0x7fd118200000, a torch allocation) before
\* and after the writes, and both names print the same elements.
FromDlpack(h, capsule) == [heap |-> h, t |-> capsule]

\* th_a = torch.ones((5,)).cuda(0)
TorchOnes ==
    /\ pc6 = "start"
    /\ heap' = Append(heap, Ones)
    /\ th_a' = NewTensor(Len(heap) + 1, <<InteropLen>>)
    /\ ctor' = ctor + 1
    /\ pc6' = "th"
    /\ UNCHANGED <<o3_a, linked, nwrites>>
    /\ UNCHANGED varsSlicing
    /\ UNCHANGED varsCall

\* o3_a = o3c.Tensor.from_dlpack(torch.utils.dlpack.to_dlpack(th_a))
ImportFromTorch ==
    /\ pc6 \in {"th", "exported"}
    /\ LET r == FromDlpack(heap, ToDlpack(th_a))
       IN  /\ heap' = r.heap
           /\ o3_a' = r.t
    /\ linked' = TRUE
    /\ pc6' = IF pc6 = "th" THEN "shared1" ELSE "shared2"
    /\ nwrites' = 0
    /\ UNCHANGED <<th_a, ctor>>
    /\ UNCHANGED varsSlicing
    /\ UNCHANGED varsCall

\* th_a[i] = v  (the cell: th_a[0] = 100)
WriteTorch ==
    /\ pc6 \in {"shared1", "fresh", "exported", "shared2"}
    /\ nwrites < MaxWrites
    /\ \E i \in 0 .. (InteropLen - 1), v \in WriteVals :
          heap' = SetItem(heap, th_a, <<IntKey(i)>>, v)
    /\ nwrites' = nwrites + 1
    /\ UNCHANGED <<th_a, o3_a, linked, ctor, pc6>>
    /\ UNCHANGED varsSlicing
    /\ UNCHANGED varsCall

\* o3_a[i] = v  (the cell: o3_a[1] = 200)
WriteO3 ==
    /\ pc6 \in {"shared1", "fresh", "exported", "shared2"}
    /\ nwrites < MaxWrites
    /\ \E i \in 0 .. (InteropLen - 1), v \in WriteVals :
          heap' = SetItem(heap, o3_a, <<IntKey(i)>>, v)
    /\ nwrites' = nwrites + 1
    /\ UNCHANGED <<th_a, o3_a, linked, ctor, pc6>>
    /\ UNCHANGED varsSlicing
    /\ UNCHANGED varsCall

\* o3_a = o3c.Tensor([1, 1, 1, 1, 1], device=o3c.Device("CUDA:0")): the name leaves
\* the buffer it shared with th_a and is bound to a newly constructed tensor
NewO3 ==
    /\ pc6 = "shared1"
    /\ heap' = Append(heap, Ones)
    /\ o3_a' = NewTensor(Len(heap) + 1, <<InteropLen>>)
    /\ ctor' = ctor + 1
    /\ linked' = FALSE
    /\ pc6' = "fresh"
    /\ nwrites' = 0
    /\ UNCHANGED th_a
    /\ UNCHANGED varsSlicing
    /\ UNCHANGED varsCall

\* th_a = torch.utils.dlpack.from_dlpack(o3_a.to_dlpack())
ExportToTorch ==
    /\ pc6 = "fresh"
    /\ LET r == FromDlpack(heap, ToDlpack(o3_a))
       IN  /\ heap' = r.heap
           /\ th_a' = r.t
    /\ linked' = TRUE
    /\ pc6' = "exported"
    /\ nwrites' = 0
    /\ UNCHANGED <<o3_a, ctor>>
    /\ UNCHANGED varsSlicing
    /\ UNCHANGED varsCall

InitInterop ==
    /\ heap = <<>>
    /\ th_a = NoTensor
    /\ o3_a = NoTensor
    /\ linked = FALSE
    /\ ctor = 0
    /\ pc6 = "start"
    /\ nwrites = 0
    /\ a = NoTensor
    /\ view = NoTensor
    /\ other = NoTensor
    /\ chain = 0
    /\ nassign = 0
    /\ last = NoAssign
    /\ args = NoArgs
    /\ res = NoResult

NextInterop ==
    \/ TorchOnes
    \/ ImportFromTorch
    \/ WriteTorch
    \/ WriteO3
    \/ NewO3
    \/ ExportToTorch

SpecInterop == InitInterop /\ [][NextInterop]_vars

-----------------------------------------------------------------------------
(* Properties of cell 6 *)

\* C5: once th_a and o3_a are linked by a dlpack import or export, and until one
\* of the names is bound to another tensor, the two sides read the same element
\* values at every position after every write made through either side, and no
\* buffer besides the constructed ones exists (import, export and writes copy nothing).
InteropSharesBuffer ==
    linked =>
        /\ Read1(heap, th_a) = Read1(heap, o3_a)
        /\ Len(heap) = ctor

\* C5 witness: after the export to torch and the re-import, a write through each
\* side has happened and both names print [100 200 1 1 1], as recorded in the cell
InteropWritesSeen ==
    /\ pc6 = "shared2"
    /\ linked
    /\ nwrites = 2
    /\ Read1(heap, th_a) = <<100, 200, 1, 1, 1>>
    /\ Read1(heap, o3_a) = <<100, 200, 1, 1, 1>>

-----------------------------------------------------------------------------
(* Cell 11: slicing *)

\* vals = np.array(range(24)).reshape((2, 3, 4))
SliceShape == <<2, 3, 4>>
Vals == [p \in 1 .. Numel(SliceShape) |-> p - 1]

\* the value assigned through an indexed tensor (cell 6 assigns 100: th_a[0] = 100)
AssignVal == 100

All == SliceKey(<<>>, <<>>, 1)

\* the four index expressions of the cell
Key_1_2        == <<IntKey(1), IntKey(2)>>
Key_1_         == <<SliceKey(<<1>>, <<>>, 1)>>
Key_all_032_all == <<All, SliceKey(<<0>>, <<3>>, 2), All>>
Key_m1_032_2   == <<SliceKey(<<>>, <<-1>>, 1), SliceKey(<<0>>, <<3>>, 2), IntKey(2)>>
NotebookKeys == {Key_1_2, Key_1_, Key_all_032_all, Key_m1_032_2}

\* the entries index expressions are drawn from: the integers and ranges the cell
\* uses, and 0 and -1
DimKeys ==
    {IntKey(i) : i \in {-1, 0, 1, 2}}
    \cup {All, SliceKey(<<1>>, <<>>, 1), SliceKey(<<>>, <<-1>>, 1), SliceKey(<<0>>, <<3>>, 2)}

Keys == NotebookKeys \cup {<<k>> : k \in DimKeys}

\* a = o3c.Tensor(vals)
MakeA ==
    /\ a = NoTensor
    /\ heap' = Append(heap, Vals)
    /\ a' = NewTensor(Len(heap) + 1, SliceShape)
    /\ view' = NewTensor(Len(heap) + 1, SliceShape)
    /\ UNCHANGED <<other, chain, nassign, last>>
    /\ UNCHANGED varsInterop
    /\ UNCHANGED varsCall

\* v = v[key]: one more index expression in the chain from a
Index ==
    /\ a # NoTensor
    /\ chain < MaxChain
    /\ \E key \in Keys :
          /\ KeyOK(view, key)
          /\ LET r == GetItem(heap, view, key)
             IN  /\ heap' = r.heap
                 /\ view' = r.t
    /\ chain' = chain + 1
    /\ UNCHANGED <<a, other, nassign, last>>
    /\ UNCHANGED varsInterop
    /\ UNCHANGED varsCall

\* w = a[key] for one of the cell's four index expressions
TakeView ==
    /\ a # NoTensor
    /\ other = NoTensor
    /\ \E key \in NotebookKeys :
          /\ KeyOK(a, key)
          /\ LET r == GetItem(heap, a, key)
             IN  /\ heap' = r.heap
                 /\ other' = r.t
    /\ UNCHANGED <<a, view, chain, nassign, last>>
    /\ UNCHANGED varsInterop
    /\ UNCHANGED varsCall

\* v[key] = 100: an item or slice assignment through the indexed tensor v[key]
Assign ==
    /\ a # NoTensor
    /\ nassign < MaxAssign
    /\ \E key \in Keys :
          /\ KeyOK(view, key)
          /\ heap' = SetItem(heap, view, key, AssignVal)
          /\ last' = [done   |-> TRUE,
                      addrs  |-> TensorAddrs(GetItemFrom(view, key, 1)),
                      val    |-> AssignVal,
                      before |-> heap[a.buf]]
    /\ nassign' = nassign + 1
    /\ UNCHANGED <<a, view, other, chain>>
    /\ UNCHANGED varsInterop
    /\ UNCHANGED varsCall

InitSlicing ==
    /\ heap = <<>>
    /\ th_a = NoTensor
    /\ o3_a = NoTensor
    /\ linked = FALSE
    /\ ctor = 0
    /\ pc6 = "idle"
    /\ nwrites = 0
    /\ a = NoTensor
    /\ view = NoTensor
    /\ other = NoTensor
    /\ chain = 0
    /\ nassign = 0
    /\ last = NoAssign
    /\ args = NoArgs
    /\ res = NoResult

NextSlicing ==
    \/ MakeA
    \/ Index
    \/ TakeView
    \/ Assign

SpecSlicing == InitSlicing /\ [][NextSlicing]_vars

-----------------------------------------------------------------------------
(* Properties of cell 11 *)

\* the value read at position p of x's buffer
At(x, p) == heap[x.buf][p + 1]

\* what position p must hold after the last assignment
Expected(p) == IF p \in last.addrs THEN last.val ELSE last.before[p + 1]

\* C4: after an assignment through a tensor reached from a by a chain of integer
\* indexes and ranges, exactly the positions of a's buffer that tensor addresses
\* hold the new value and every other position holds what it held before; the
\* new values are read through a and through every other indexed tensor that
\* addresses those positions; and a's buffer is the only buffer (indexing and
\* assignment copy nothing).
SliceAssignWritesThrough ==
    last.done =>
        /\ Len(heap) = 1
        /\ \A p \in 0 .. (Numel(SliceShape) - 1) : At(a, p) = Expected(p)
        /\ \A x \in {a, view, other} \ {NoTensor} :
              \A p \in TensorAddrs(x) : At(x, p) = Expected(p)

\* C4 witness: a[1:][0] = 100 has run; a reads 100 at a[1] (positions 12..23) and its
\* old values at a[0]; the printed tensor a[:, 0:3:2, :], which addresses positions
\* 12..15 and 20..23 of them, reads 100 there
SliceAssignSeen ==
    /\ last.done
    /\ chain = 1
    /\ view = GetItemFrom(a, Key_1_, 1)
    /\ last.addrs = 12 .. 23
    /\ other = GetItemFrom(a, Key_all_032_all, 1)
    /\ \A p \in 12 .. 23 : At(a, p) = AssignVal
    /\ \A p \in 0 .. 11 : At(a, p) = p
    /\ \A p \in (12 .. 15) \cup (20 .. 23) : p \in TensorAddrs(other) /\ At(other, p) = AssignVal

-----------------------------------------------------------------------------
(* Tensors by value: dtype, shape and the elements in row-major order, as   *)
(* print() shows a newly returned tensor                                    *)

ValTensor(dtype, shape, data) == [dtype |-> dtype, shape |-> shape, data |-> data]

\* the coordinates of the element at row-major position p (0-based) of a shape
RECURSIVE Coords(_, _)
Coords(p, shape) ==
    IF shape = <<>> THEN <<>>
    ELSE LET inner == Numel(Tail(shape))
         IN  <<p \div inner>> \o Coords(p % inner, Tail(shape))

\* the row-major position (0-based) of coordinates in a shape
RECURSIVE Ravel(_, _)
Ravel(coords, shape) ==
    IF shape = <<>> THEN 0
    ELSE Head(coords) * Numel(Tail(shape)) + Ravel(Tail(coords), Tail(shape))

-----------------------------------------------------------------------------
(* Cells 9, 10 and 12: reductions                                           *)
(* (a.sum(), a.min(), a.sum(dim=(0)), a.sum(dim=(0, 2)),                    *)
(*  a.sum(dim=(0, 2), keepdim=True), a.any(), a.all())                      *)

\* sides of the shapes reductions are tried on, besides the notebook's {2,3,4}
MaxSide == 2

\* the rank of the notebook's tensors (a.ndim: 3)
MaxRank == 3

\* the dimensions reduced: dim omitted (the empty sequence) means every dimension
ReduceDims(shape, dim) ==
    IF dim = <<>> THEN 0 .. (Len(shape) - 1) ELSE dim[1]

\* the shape with the dimensions of D kept at size 1
KeepShape(shape, D) ==
    [i \in 1 .. Len(shape) |-> IF (i - 1) \in D THEN 1 ELSE shape[i]]

\* the shape with the dimensions of D erased, from the last dimension to the first
RECURSIVE EraseDims(_, _, _)
EraseDims(shape, D, d) ==
    IF d = 0 THEN shape
    ELSE EraseDims(IF (d - 1) \in D THEN RemoveAt(shape, d) ELSE shape, D, d - 1)

\* the result shape on the bug that forgets keepdim
ReductionShapeDrop(shape, D, keepdim) == EraseDims(shape, D, Len(shape))

\* the result shape: a.sum(dim=(0, 2)).shape is [3], with keepdim=True [1, 3, 1]
ReductionShape(shape, D, keepdim) ==
    IF keepdim THEN KeepShape(shape, D) ELSE EraseDims(shape, D, Len(shape))

\* one step of a reduction: the running value x combined with the element y
Combine(op, x, y) ==
    CASE op = "sum" -> x + y
      [] op = "min" -> IF y < x THEN y ELSE x
      [] op = "max" -> IF y > x THEN y ELSE x
      [] op = "any" -> x \/ y
      [] op = "all" -> x /\ y

\* where the element at coordinates c is accumulated: its coordinates with the
\* reduced dimensions set to 0, in the shape that keeps them at size 1
OutPos(c, shape, D) ==
    Ravel([i \in 1 .. Len(c) |-> IF (i - 1) \in D THEN 0 ELSE c[i]], KeepShape(shape, D))

\* the accumulators after the first p elements of data have been visited in
\* row-major order (an accumulator is empty until its first element arrives)
RECURSIVE Accumulate(_, _, _, _, _)
Accumulate(op, data, shape, D, p) ==
    IF p = 0 THEN [o \in 0 .. (Numel(KeepShape(shape, D)) - 1) |-> <<>>]
    ELSE LET prev == Accumulate(op, data, shape, D, p - 1)
             o    == OutPos(Coords(p - 1, shape), shape, D)
         IN  [prev EXCEPT ![o] = IF Len(prev[o]) = 0 THEN <<data[p]>>
                                 ELSE <<Combine(op, prev[o][1], data[p])>>]

\* t.sum / t.min / t.max / t.any / t.all (dim, keepdim): a new tensor
Reduce(op, t, dim, keepdim) ==
    LET D   == ReduceDims(t.shape, dim)
        acc == Accumulate(op, t.data, t.shape, D, Len(t.data))
    IN  ValTensor(t.dtype, ReductionShape(t.shape, D, keepdim),
                  [o \in 1 .. Numel(KeepShape(t.shape, D)) |-> acc[o - 1][1]])

\* the shapes tried: every shape of rank 1 .. MaxRank with sides 1 .. MaxSide,
\* the zero-rank shape, and the notebook's {2,3,4} and {4}
RECURSIVE ShapesOfRank(_)
ShapesOfRank(r) ==
    IF r = 0 THEN {<<>>}
    ELSE {<<n>> \o sh : n \in 1 .. MaxSide, sh \in ShapesOfRank(r - 1)}

\* cell 12: a = o3c.Tensor(np.array([True, False, True, False]))
BoolShape == <<4>>

ReduceShapes == {SliceShape, BoolShape} \cup UNION {ShapesOfRank(r) : r \in 0 .. MaxRank}

\* integer elements: np.array(range(n)) as in the notebook, and a sequence that
\* is not sorted
RangeData(shape) == [p \in 1 .. Numel(shape) |-> p - 1]
MixedData(shape) == [p \in 1 .. Numel(shape) |-> ((p * 5) % 7) - 3]

\* boolean elements: [True, False, True, False, ..] as in cell 12, all True, all False
BoolData(shape, kind) ==
    [p \in 1 .. Numel(shape) |->
        CASE kind = "alt" -> (p % 2 = 1) [] kind = "true" -> TRUE [] kind = "false" -> FALSE]

ReduceInputs ==
    UNION {{ValTensor("Int64", sh, RangeData(sh)), ValTensor("Int64", sh, MixedData(sh))} :
           sh \in ReduceShapes}

BoolInputs ==
    {ValTensor("Bool", sh, BoolData(sh, k)) : sh \in ReduceShapes, k \in {"alt", "true", "false"}}

\* the dim arguments tried on a shape: omitted, or any non-empty set of its dimensions
DimArgs(shape) ==
    {<<>>} \cup {<<D>> : D \in (SUBSET (0 .. (Len(shape) - 1))) \ {{}}}

InitReduce ==
    /\ heap = <<>>
    /\ th_a = NoTensor
    /\ o3_a = NoTensor
    /\ linked = FALSE
    /\ ctor = 0
    /\ pc6 = "idle"
    /\ nwrites = 0
    /\ a = NoTensor
    /\ view = NoTensor
    /\ other = NoTensor
    /\ chain = 0
    /\ nassign = 0
    /\ last = NoAssign
    /\ res = NoResult
    /\ \E op \in {"sum", "min", "max", "any", "all"} :
       \E t \in (IF op \in {"any", "all"} THEN BoolInputs ELSE ReduceInputs) :
       \E dim \in DimArgs(t.shape), k \in BOOLEAN :
          args = [op |-> op, t |-> t, dim |-> dim, keepdim |-> k]

Returned(x) == [done |-> TRUE, t |-> x]

\* a.sum(dim, keepdim)
Sum ==
    /\ args.op = "sum" /\ ~res.done
    /\ res' = Returned(Reduce("sum", args.t, args.dim, args.keepdim))
    /\ UNCHANGED <<heap, args>> /\ UNCHANGED varsInterop /\ UNCHANGED varsSlicing

\* a.min(dim, keepdim)
MinOf ==
    /\ args.op = "min" /\ ~res.done
    /\ res' = Returned(Reduce("min", args.t, args.dim, args.keepdim))
    /\ UNCHANGED <<heap, args>> /\ UNCHANGED varsInterop /\ UNCHANGED varsSlicing

\* a.max(dim, keepdim)
MaxOf ==
    /\ args.op = "max" /\ ~res.done
    /\ res' = Returned(Reduce("max", args.t, args.dim, args.keepdim))
    /\ UNCHANGED <<heap, args>> /\ UNCHANGED varsInterop /\ UNCHANGED varsSlicing

\* a.any(dim, keepdim)
AnyOf ==
    /\ args.op = "any" /\ ~res.done
    /\ res' = Returned(Reduce("any", args.t, args.dim, args.keepdim))
    /\ UNCHANGED <<heap, args>> /\ UNCHANGED varsInterop /\ UNCHANGED varsSlicing

\* a.all(dim, keepdim)
AllOf ==
    /\ args.op = "all" /\ ~res.done
    /\ res' = Returned(Reduce("all", args.t, args.dim, args.keepdim))
    /\ UNCHANGED <<heap, args>> /\ UNCHANGED varsInterop /\ UNCHANGED varsSlicing

NextReduce ==
    \/ Sum
    \/ MinOf
    \/ MaxOf
    \/ AnyOf
    \/ AllOf

SpecReduce == InitReduce /\ [][NextReduce]_vars

-----------------------------------------------------------------------------
(* Properties of the reductions *)

\* the dimensions of a shape outside D, in order
KeptDims(shape, D) == {i \in 1 .. Len(shape) : (i - 1) \notin D}

\* the shape with the dimensions in D removed
ShapeWithout(shape, D) ==
    LET kept == KeptDims(shape, D)
    IN  [j \in 1 .. Cardinality(kept) |->
            shape[CHOOSE i \in kept : Cardinality({k \in kept : k < i}) = j - 1]]

\* the input positions that share the non-reduced coordinates of output position o
Sharing(o, shape, D) ==
    LET K == KeepShape(shape, D)
    IN  {p \in 0 .. (Numel(shape) - 1) :
            \A i \in KeptDims(shape, D) : Coords(p, shape)[i] = Coords(o, K)[i]}

RECURSIVE SumOver(_, _)
SumOver(S, data) ==
    IF S = {} THEN 0
    ELSE LET p == CHOOSE q \in S : TRUE
         IN  data[p + 1] + SumOver(S \ {p}, data)

\* the value a reduction must give for the elements of data at the positions S
ReducedValue(op, S, data) ==
    CASE op = "sum" -> SumOver(S, data)
      [] op = "min" -> CHOOSE m \in {data[p + 1] : p \in S} : \A p \in S : m <= data[p + 1]
      [] op = "max" -> CHOOSE m \in {data[p + 1] : p \in S} : \A p \in S : m >= data[p + 1]
      [] op = "any" -> \E p \in S : data[p + 1]
      [] op = "all" -> \A p \in S : data[p + 1]

NotebookSum(dim, keepdim) ==
    /\ args.op = "sum"
    /\ args.t = ValTensor("Int64", SliceShape, RangeData(SliceShape))
    /\ args.dim = dim
    /\ args.keepdim = keepdim

\* C11: a reduction (sum, min, max, any, all) over the dimensions D returns, with
\* keepdim false, a tensor whose shape is the input shape with the dimensions of D
\* removed and, with keepdim true, the input shape with each dimension of D set to
\* 1; with no dimensions given and keepdim false the result has zero rank; every
\* output element is the reduction of exactly the input elements that share its
\* non-reduced coordinates.  On the {2,3,4} tensor sum(dim=(0,2)) is [60 92 124]
\* of shape {3}, with keepdim=True of shape {1,3,1}, and sum() is 276.
ReductionShapeAndValues ==
    res.done =>
        LET t == args.t
            D == ReduceDims(t.shape, args.dim)
            r == res.t
        IN  /\ args.keepdim  => r.shape = [i \in 1 .. Len(t.shape) |->
                                              IF (i - 1) \in D THEN 1 ELSE t.shape[i]]
            /\ ~args.keepdim => r.shape = ShapeWithout(t.shape, D)
            /\ (args.dim = <<>> /\ ~args.keepdim) => r.shape = <<>>
            /\ Len(r.data) = Numel(r.shape)
            /\ \A o \in 0 .. (Len(r.data) - 1) :
                  r.data[o + 1] = ReducedValue(args.op, Sharing(o, t.shape, D), t.data)
            /\ NotebookSum(<<{0, 2}>>, FALSE) => r.shape = <<3>> /\ r.data = <<60, 92, 124>>
            /\ NotebookSum(<<{0, 2}>>, TRUE)  => r.shape = <<1, 3, 1>> /\ r.data = <<60, 92, 124>>
            /\ NotebookSum(<<>>, FALSE)       => r.shape = <<>> /\ r.data = <<276>>

\* C11 witness: a.sum(dim=(0, 2), keepdim=True) has run on the {2,3,4} tensor of
\* range(24) and returned [60 92 124] with shape {1,3,1}
ReductionKeepdimSeen ==
    /\ res.done
    /\ NotebookSum(<<{0, 2}>>, TRUE)
    /\ res.t.shape = <<1, 3, 1>>
    /\ res.t.data = <<60, 92, 124>>


-----------------------------------------------------------------------------
(* Cells 7 and 13: element-wise binary and comparison operations            *)
(* (a + b, a - b, a * b, a > b, a >= b, a < b, a <= b, a == b, a != b,      *)
(*  a > b[0])                                                               *)

\* every cell of the other groups before it has run
IdleCells ==
    /\ heap = <<>>
    /\ th_a = NoTensor
    /\ o3_a = NoTensor
    /\ linked = FALSE
    /\ ctor = 0
    /\ pc6 = "idle"
    /\ nwrites = 0
    /\ a = NoTensor
    /\ view = NoTensor
    /\ other = NoTensor
    /\ chain = 0
    /\ nassign = 0
    /\ last = NoAssign

\* the length of the vectors of cells 7 and 13 (a = o3c.Tensor([0, 1, -1]))
VecLen == 3

\* the largest rank of an operand of a binary operation
MaxOperandRank == 2

\* a call that throws an exception returns no tensor
Thrown == [done |-> TRUE, t |-> NoTensor]

\* a shape extended to n dimensions with sides 1 on the wrong end
PadRight(shape, n) ==
    [i \in 1 .. n |-> IF i <= Len(shape) THEN shape[i] ELSE 1]

\* a shape extended to n dimensions with sides 1 in front: b[0], of shape {},
\* is taken as {1} against a, of shape {3}
PadLeft(shape, n) ==
    [i \in 1 .. n |-> IF i <= n - Len(shape) THEN 1 ELSE shape[i - (n - Len(shape))]]

\* "If shape is not same, then tensors should be broadcast compatible."
IsCompatible(s1, s2) ==
    LET n  == Max(Len(s1), Len(s2))
        p1 == PadLeft(s1, n)
        p2 == PadLeft(s2, n)
    IN  \A i \in 1 .. n : p1[i] = p2[i] \/ p1[i] = 1 \/ p2[i] = 1

\* the shape of the result of two compatible operands
BroadcastedShape(s1, s2) ==
    LET n  == Max(Len(s1), Len(s2))
        p1 == PadLeft(s1, n)
        p2 == PadLeft(s2, n)
    IN  [i \in 1 .. n |-> Max(p1[i], p2[i])]

\* the element (1-based) of an operand of the given shape that the output
\* coordinates c select: a dimension of side 1 is read at index 0
BroadcastIndex(c, shape) ==
    LET p == PadLeft(shape, Len(c))
    IN  1 + Ravel([i \in 1 .. Len(c) |-> IF p[i] = 1 THEN 0 ELSE c[i]], p)

ArithmeticOps == {"add", "sub", "mul"}
ComparisonOps == {"gt", "ge", "lt", "le", "eq", "ne"}

\* the operation on two elements
Apply(op, x, y) ==
    CASE op = "add" -> x + y
      [] op = "sub" -> x - y
      [] op = "mul" -> x * y
      [] op = "gt"  -> x > y
      [] op = "ge"  -> x >= y
      [] op = "lt"  -> x < y
      [] op = "le"  -> x <= y
      [] op = "eq"  -> x = y
      [] op = "ne"  -> x # y

\* a + b is Float32 like a and b (cell 7); a > b is Bool (cell 13)
ResultDtype(op, dtype) == IF op \in ComparisonOps THEN "Bool" ELSE dtype

\* x op y: a new tensor of the broadcast shape, or an exception
Binary(op, x, y) ==
    IF ~IsCompatible(x.shape, y.shape) THEN Thrown
    ELSE LET out == BroadcastedShape(x.shape, y.shape)
         IN  Returned(ValTensor(ResultDtype(op, x.dtype), out,
                 [q \in 1 .. Numel(out) |->
                     LET c == Coords(q - 1, out)
                     IN  Apply(op, x.data[BroadcastIndex(c, x.shape)],
                                   y.data[BroadcastIndex(c, y.shape)])]))

\* operand shapes: every shape of rank 0 .. MaxOperandRank with sides 1 .. VecLen
RECURSIVE OperandShapesOfRank(_)
OperandShapesOfRank(r) ==
    IF r = 0 THEN {<<>>}
    ELSE {<<n>> \o sh : n \in 1 .. VecLen, sh \in OperandShapesOfRank(r - 1)}

OperandShapes == UNION {OperandShapesOfRank(r) : r \in 0 .. MaxOperandRank}

\* cell 13's a = [0, 1, -1], repeated over the shape
CycleData(shape) == [p \in 1 .. Numel(shape) |-> <<0, 1, -1>>[((p - 1) % VecLen) + 1]]

\* cell 13's b = [0, 0, 0]
ZeroData(shape) == [p \in 1 .. Numel(shape) |-> 0]

LeftOperands ==
    UNION {{ValTensor("Int64", sh, CycleData(sh)), ValTensor("Int64", sh, MixedData(sh))} :
           sh \in OperandShapes}

RightOperands ==
    UNION {{ValTensor("Int64", sh, ZeroData(sh)), ValTensor("Int64", sh, RangeData(sh))} :
           sh \in OperandShapes}

InitBinary ==
    /\ IdleCells
    /\ res = NoResult
    /\ \E op \in ArithmeticOps \cup ComparisonOps :
       \E x \in LeftOperands, y \in RightOperands :
          args = [op |-> op, x |-> x, y |-> y]

\* the frame of a call on tensors held by value
CallFrame == UNCHANGED <<heap, args>> /\ UNCHANGED varsInterop /\ UNCHANGED varsSlicing

\* a + b
Add == args.op = "add" /\ ~res.done /\ res' = Binary("add", args.x, args.y) /\ CallFrame

\* a - b
Sub == args.op = "sub" /\ ~res.done /\ res' = Binary("sub", args.x, args.y) /\ CallFrame

\* a * b
Mul == args.op = "mul" /\ ~res.done /\ res' = Binary("mul", args.x, args.y) /\ CallFrame

\* a > b
Gt == args.op = "gt" /\ ~res.done /\ res' = Binary("gt", args.x, args.y) /\ CallFrame

\* a >= b
Ge == args.op = "ge" /\ ~res.done /\ res' = Binary("ge", args.x, args.y) /\ CallFrame

\* a < b
Lt == args.op = "lt" /\ ~res.done /\ res' = Binary("lt", args.x, args.y) /\ CallFrame

\* a <= b
Le == args.op = "le" /\ ~res.done /\ res' = Binary("le", args.x, args.y) /\ CallFrame

\* a == b
Eq == args.op = "eq" /\ ~res.done /\ res' = Binary("eq", args.x, args.y) /\ CallFrame

\* a != b
Ne == args.op = "ne" /\ ~res.done /\ res' = Binary("ne", args.x, args.y) /\ CallFrame

NextBinary ==
    \/ Add
    \/ Sub
    \/ Mul
    \/ Gt
    \/ Ge
    \/ Lt
    \/ Le
    \/ Eq
    \/ Ne

SpecBinary == InitBinary /\ [][NextBinary]_vars

(* Properties of the binary operations *)

\* the side of a shape at the k-th dimension from the end, 1 where it has none
SideFromEnd(shape, k) == IF k <= Len(shape) THEN shape[Len(shape) + 1 - k] ELSE 1

\* shapes that agree, dimension by dimension from the end, up to sides of 1
Compatible(s1, s2) ==
    \A k \in 1 .. Max(Len(s1), Len(s2)) :
        LET n1 == SideFromEnd(s1, k)
            n2 == SideFromEnd(s2, k)
        IN  n1 = n2 \/ n1 = 1 \/ n2 = 1

\* the element of operand t selected for the result's coordinates c
Selected(t, c) ==
    LET lead == Len(c) - Len(t.shape)
    IN  t.data[1 + Ravel([j \in 1 .. Len(t.shape) |->
                             IF t.shape[j] = 1 THEN 0 ELSE c[j + lead]], t.shape)]

-----------------------------------------------------------------------------
(* Cell 12: logical operations                                              *)
(* (a.logical_and(b), a.logical_or(b), a.logical_xor(b), a.logical_not(),   *)
(*  c.logical_and(d) on Float64 tensors)                                    *)

\* the longest tensor tried besides the notebook's own of length 4
MaxLogicalLen == 2

\* Float64 elements are held in tenths: 2.0 is 20, 3.5 is 35, 1.5 is 15
Tenths(whole, tenth) == whole * 10 + tenth

\* the element values of each dtype: cell 12's booleans, cell 13's integers,
\* cell 12's floats
ElementsOf(dtype) ==
    CASE dtype = "Bool"    -> BOOLEAN
      [] dtype = "Int64"   -> {0, 1, -1}
      [] dtype = "Float64" -> {Tenths(0, 0), Tenths(2, 0), Tenths(3, 5)}

\* the tensors of cell 12
LogicalA == ValTensor("Bool", BoolShape, <<TRUE, FALSE, TRUE, FALSE>>)
LogicalB == ValTensor("Bool", BoolShape, <<TRUE, TRUE, FALSE, FALSE>>)
LogicalC == ValTensor("Float64", BoolShape,
                      <<Tenths(2, 0), Tenths(0, 0), Tenths(3, 5), Tenths(0, 0)>>)
LogicalD == ValTensor("Float64", BoolShape,
                      <<Tenths(0, 0), Tenths(3, 0), Tenths(1, 5), Tenths(0, 0)>>)

\* the one-dimensional tensors of a dtype up to the length tried
VectorsOf(dtype) ==
    UNION {{ValTensor(dtype, <<n>>, d) : d \in [1 .. n -> ElementsOf(dtype)]} :
           n \in 1 .. MaxLogicalLen}

LogicalInputs ==
    {LogicalA, LogicalB, LogicalC, LogicalD}
        \cup UNION {VectorsOf(dtype) : dtype \in {"Bool", "Int64", "Float64"}}

\* "If tensor is not boolean, 0 will be treated as False, while non-zero as true."
Truth(dtype, x) == IF dtype = "Bool" THEN x ELSE x # 0

\* the dtype of the result on the assumption of the cell's comment ("filled
\* with 0 or 1 casted to tensor's dtype")
OperandDtype(dtype) == dtype

\* the dtype of the result as printed: c AND d = [False False True False]
LogicalDtype(dtype) == "Bool"

\* the operation on two truth values
Connective(op, p, q) ==
    CASE op = "logical_and" -> p /\ q
      [] op = "logical_or"  -> p \/ q
      [] op = "logical_xor" -> p # q

\* x.logical_and(y), x.logical_or(y), x.logical_xor(y): the operands as the
\* call leaves them, and the tensor it returns
Logical(op, x, y) ==
    [x   |-> x,
     y   |-> y,
     out |-> ValTensor(LogicalDtype(x.dtype), x.shape,
                 [p \in 1 .. Len(x.data) |->
                     Connective(op, Truth(x.dtype, x.data[p]), Truth(y.dtype, y.data[p]))])]

\* x.logical_not()
LogicalNegation(x) ==
    [x   |-> x,
     out |-> ValTensor(LogicalDtype(x.dtype), x.shape,
                 [p \in 1 .. Len(x.data) |-> ~Truth(x.dtype, x.data[p])])]

InitLogical ==
    /\ IdleCells
    /\ res = NoResult
    /\ \E op \in {"logical_and", "logical_or", "logical_xor", "logical_not"} :
       \E x \in LogicalInputs :
       \E y \in {t \in LogicalInputs : t.dtype = x.dtype /\ t.shape = x.shape} :
          args = [op |-> op, x |-> x, y |-> y]

\* a.logical_and(b)
LogicalAnd ==
    /\ args.op = "logical_and" /\ ~res.done
    /\ LET r == Logical("logical_and", args.x, args.y)
       IN  /\ args' = [args EXCEPT !.x = r.x, !.y = r.y]
           /\ res' = Returned(r.out)
    /\ UNCHANGED heap /\ UNCHANGED varsInterop /\ UNCHANGED varsSlicing

\* a.logical_or(b)
LogicalOr ==
    /\ args.op = "logical_or" /\ ~res.done
    /\ LET r == Logical("logical_or", args.x, args.y)
       IN  /\ args' = [args EXCEPT !.x = r.x, !.y = r.y]
           /\ res' = Returned(r.out)
    /\ UNCHANGED heap /\ UNCHANGED varsInterop /\ UNCHANGED varsSlicing

\* a.logical_xor(b)
LogicalXor ==
    /\ args.op = "logical_xor" /\ ~res.done
    /\ LET r == Logical("logical_xor", args.x, args.y)
       IN  /\ args' = [args EXCEPT !.x = r.x, !.y = r.y]
           /\ res' = Returned(r.out)
    /\ UNCHANGED heap /\ UNCHANGED varsInterop /\ UNCHANGED varsSlicing

\* a.logical_not()
LogicalNot ==
    /\ args.op = "logical_not" /\ ~res.done
    /\ LET r == LogicalNegation(args.x)
       IN  /\ args' = [args EXCEPT !.x = r.x]
           /\ res' = Returned(r.out)
    /\ UNCHANGED heap /\ UNCHANGED varsInterop /\ UNCHANGED varsSlicing

NextLogical ==
    \/ LogicalAnd
    \/ LogicalOr
    \/ LogicalXor
    \/ LogicalNot

SpecLogical == InitLogical /\ [][NextLogical]_vars

(* Properties of the logical operations *)

\* an element counts as true iff it is True (Bool) or not zero (any other dtype)
NonZero(t, p) == IF t.dtype = "Bool" THEN t.data[p] = TRUE ELSE ~(t.data[p] = 0)

\* what a logical call must have returned for operands x and y
LogicalExpected(op, x, y, p) ==
    CASE op = "logical_and" -> NonZero(x, p) /\ NonZero(y, p)
      [] op = "logical_or"  -> NonZero(x, p) \/ NonZero(y, p)
      [] op = "logical_xor" -> (NonZero(x, p) /\ ~NonZero(y, p)) \/ (~NonZero(x, p) /\ NonZero(y, p))
      [] op = "logical_not" -> ~NonZero(x, p)

\* one step of a logical call: a Bool tensor of the operands' shape comes back,
\* element by element the connective of the operands' truth values, and the
\* operands are what they were
LogicalStep ==
    args.op \in {"logical_and", "logical_or", "logical_xor", "logical_not"} =>
        /\ args' = args
        /\ res'.done
        /\ res'.t.dtype = "Bool"
        /\ res'.t.shape = args.x.shape
        /\ Len(res'.t.data) = Len(args.x.data)
        /\ \A p \in 1 .. Len(args.x.data) :
              res'.t.data[p] = LogicalExpected(args.op, args.x, args.y, p)
        /\ (args.op = "logical_and" /\ args.x = LogicalC /\ args.y = LogicalD) =>
              res'.t = ValTensor("Bool", BoolShape, <<FALSE, FALSE, TRUE, FALSE>>)

-----------------------------------------------------------------------------
(* Cell 11: the geometry of one index expression                            *)
(* (a[1, 2], a[1:], a[:, 0:3:2, :], a[:-1, 0:3:2, 2])                       *)

\* a bound of a range that lies beyond every side of a ({2,3,4})
FarIndex == 5

\* a = o3c.Tensor(vals), the first tensor on the heap
FreshA == NewTensor(1, SliceShape)

\* the tensors indexed: a and the four tensors the cell prints
IndexedTensors == {FreshA} \cup {GetItemFrom(FreshA, key, 1) : key \in NotebookKeys}

\* the entries of the index expressions tried: integers, and ranges whose
\* bounds are omitted, inside, negative, or beyond the dimension
IntEntries == {IntKey(i) : i \in {-2, -1, 0, 1, 2}}
RangeEntries ==
    {SliceKey(start, stop, step) :
        start \in {<<>>, <<1>>, <<-1>>, <<-FarIndex>>},
        stop  \in {<<>>, <<3>>, <<-1>>, <<FarIndex>>},
        step  \in {1, 2}}
Entries == IntEntries \cup RangeEntries

IndexKeys ==
    NotebookKeys \cup {<<k>> : k \in Entries} \cup {<<k1, k2>> : k1 \in Entries, k2 \in Entries}

InitGetItem ==
    /\ IdleCells
    /\ res = NoResult
    /\ \E t \in IndexedTensors, key \in IndexKeys :
          /\ KeyOK(t, key)
          /\ args = [op |-> "getitem", t |-> t, key |-> key]

\* t[key]
GetItemCall ==
    /\ args.op = "getitem" /\ ~res.done
    /\ res' = Returned(GetItemFrom(args.t, args.key, 1))
    /\ CallFrame

NextGetItem == GetItemCall

SpecGetItem == InitGetItem /\ [][NextGetItem]_vars

(* Properties of one index expression *)

\* a python index counted from the end when negative
FromEnd(i, n) == IF i < 0 THEN i + n ELSE i

\* a range bound within [0, n]
Clamped(b, n) ==
    LET x == FromEnd(b, n)
    IN  IF x < 0 THEN 0 ELSE IF x > n THEN n ELSE x

\* where a range starts and stops on a dimension of size n
RangeStart(k, n) == IF k.start = <<>> THEN 0 ELSE Clamped(k.start[1], n)
RangeStop(k, n)  == IF k.stop = <<>> THEN n ELSE Clamped(k.stop[1], n)

\* the positions start, start + step, .. below stop
RangePositions(k, n) ==
    {i \in 0 .. (n - 1) :
        /\ RangeStart(k, n) <= i
        /\ i < RangeStop(k, n)
        /\ (i - RangeStart(k, n)) % k.step = 0}

\* the dimensions of t that t[key] keeps: those without an integer entry
KeptOf(t, key) ==
    LET Keep(d) == d > Len(key) \/ key[d].kind = "slice"
    IN  SelectSeq([d \in 1 .. Len(t.shape) |-> d], Keep)

\* what dimension d of t adds to the element offset
OffsetOf(t, key, d) ==
    IF d > Len(key) THEN 0
    ELSE IF key[d].kind = "int" THEN FromEnd(key[d].i, t.shape[d]) * t.strides[d]
    ELSE RangeStart(key[d], t.shape[d]) * t.strides[d]

RECURSIVE OffsetUpTo(_, _, _)
OffsetUpTo(t, key, d) ==
    IF d = 0 THEN 0 ELSE OffsetOf(t, key, d) + OffsetUpTo(t, key, d - 1)

\* the geometry of a view
Geometry(t) == <<t.shape, t.strides, t.off>>

\* C15: t[key] has python-slice geometry.  An integer entry removes its
\* dimension and adds (index, counted from the end when negative) x stride to
\* the offset; a range keeps its dimension with as many positions as start,
\* start + step, .. has below stop (bounds counted from the end when negative
\* and clamped to [0, size]), stride step x the source stride, and adds start x
\* stride to the offset; dimensions without an entry are kept as they are.  On
\* a of shape {2,3,4}: a[1, 2] is {4} / {1} / 20, a[1:] is {1,3,4} / {12,4,1} /
\* 12, a[:, 0:3:2, :] is {2,2,4} / {12,8,1} / 0, a[:-1, 0:3:2, 2] is {1,2} /
\* {12,8} / 2.
IndexGeometry ==
    (res.done /\ args.op = "getitem") =>
        LET t    == args.t
            key  == args.key
            r    == res.t
            kept == KeptOf(t, key)
        IN  /\ r.buf = t.buf
            /\ Len(r.shape) = Len(kept)
            /\ Len(r.strides) = Len(kept)
            /\ \A j \in 1 .. Len(kept) :
                  LET d == kept[j]
                  IN  IF d > Len(key)
                      THEN r.shape[j] = t.shape[d] /\ r.strides[j] = t.strides[d]
                      ELSE /\ r.shape[j] = Cardinality(RangePositions(key[d], t.shape[d]))
                           /\ r.strides[j] = key[d].step * t.strides[d]
            /\ r.off = t.off + OffsetUpTo(t, key, Len(t.shape))
            /\ (t = FreshA /\ key = Key_1_2) => Geometry(r) = <<(<<4>>), (<<1>>), 20>>
            /\ (t = FreshA /\ key = Key_1_) => Geometry(r) = <<(<<1, 3, 4>>), (<<12, 4, 1>>), 12>>
            /\ (t = FreshA /\ key = Key_all_032_all) =>
                  Geometry(r) = <<(<<2, 2, 4>>), (<<12, 8, 1>>), 0>>
            /\ (t = FreshA /\ key = Key_m1_032_2) => Geometry(r) = <<(<<1, 2>>), (<<12, 8>>), 2>>

\* a[:-1, 0:3:2, 2] has been taken: a negative bound, a step of 2 and an
\* integer entry in one expression
IndexMixedSeen ==
    /\ res.done /\ args.op = "getitem"
    /\ args.t = FreshA /\ args.key = Key_m1_032_2
    /\ Geometry(res.t) = <<(<<1, 2>>), (<<12, 8>>), 2>>


-----------------------------------------------------------------------------
(* Cells 3 and 11: shape and strides of a and of the tensors indexed from it *)

\* a.ndim
Ndim(t) == Len(t.shape)

\* the product of the sides after dimension d
SidesAfter(shape, d) == Numel(SubSeq(shape, d + 1, Len(shape)))

\* the position of the element at coordinates c: offset + sum of c[d] x strides[d]
RECURSIVE PositionOf(_, _, _)
PositionOf(off, c, strides) ==
    IF c = <<>> THEN off
    ELSE PositionOf(off + Head(c) * Head(strides), Tail(c), Tail(strides))

\* the positions a tensor addresses, one per coordinate tuple of its shape
PositionsOf(t) ==
    {PositionOf(t.off, Coords(q, t.shape), t.strides) : q \in 0 .. (Numel(t.shape) - 1)}

HasCanonicalStrides(t) ==
    /\ Len(t.strides) = Len(t.shape)
    /\ \A d \in 1 .. Len(t.shape) : t.strides[d] = SidesAfter(t.shape, d)

\* C19: a and every tensor reached from it by a chain of integer indexes and
\* ranges (negative indexes, steps of 2 and clamped ends among them) has as
\* many strides as sides, which is its ndim, lives on a's buffer, and addresses
\* only positions inside that buffer of numel(a) elements; a itself has the
\* canonical row-major strides of its shape ({2,3,4} gives {12,4,1}); and a
\* tensor whose strides are the canonical ones of its own shape -- a contiguous
\* one -- addresses one run of consecutive positions from its offset
ViewsStayInBuffer ==
    /\ a # NoTensor =>
          /\ HasCanonicalStrides(a)
          /\ a.shape = <<2, 3, 4>> /\ a.strides = <<12, 4, 1>> /\ a.off = 0
          /\ Ndim(a) = MaxRank
          /\ Len(heap[a.buf]) = Numel(a.shape)
    /\ \A x \in {a, view, other} \ {NoTensor} :
          /\ Ndim(x) = Len(x.shape)
          /\ Len(x.shape) = Len(x.strides)
          /\ \A d \in 1 .. Len(x.shape) : x.shape[d] >= 0
          /\ x.buf = a.buf
          /\ PositionsOf(x) \subseteq 0 .. (Numel(a.shape) - 1)
          /\ HasCanonicalStrides(x) =>
                PositionsOf(x) = x.off .. (x.off + Numel(x.shape) - 1)

\* a[:, 0:3:2, :][-1] has been reached: a step of 2 and then a negative index,
\* a tensor that is not contiguous and starts 12 elements into a's buffer
SteppedNegativeViewSeen ==
    /\ chain = 2
    /\ view.shape = <<2, 4>>
    /\ view.strides = <<8, 1>>
    /\ view.off = 12
    /\ ~HasCanonicalStrides(view)

====
